---- MODULE Spec2Model ----
(***************************************************************************)
(* The account forms of users/forms.py (signin, account actions, student,  *)
(* teacher and deptadmin signup and update) over the relational store      *)
(* they read and write.                                                    *)
(*                                                                         *)
(* The store is one record `db` (tables as sets of rows, the two          *)
(* membership tables as bags, which have no key besides the row itself).   *)
(* Every form method is an operator from a store to a result [db, exc]:    *)
(* its statements run in order and the first exception ends it.            *)
(* transaction.atomic turns a result into the store that is committed.     *)
(***************************************************************************)
EXTENDS Integers, FiniteSets, Bags, TLC

VARIABLES
    db,         \* the store: the tables and the next User id
    now,        \* the calendar year
    loadYear,   \* the calendar year when the form classes were loaded
    reqs,       \* the requests in flight, when requests overlap
    last,       \* history: the latest request and the response to it
    recording   \* whether `last` is kept

vars == <<db, now, loadYear, reqs, last, recording>>

(* ------------------------------ bounds --------------------------------- *)

\* Number of User ids the store hands out (signups are refused beyond it).
MaxUid == 2
\* How many times the calendar year advances after the forms are loaded.
MaxTicks == 1

Emails == {"a@x", "b@x"}
Passwords == {"p1"}
Depts == {"d1", "d2"}
RegIds == {"r1", "r2"}
Names == {"n1"}
Surnames == {"s1"}
Ranks == {"lecturer", "professor"}
Slots == {1, 2}

(* --------------------------- program constants ------------------------- *)

\* forms.IntegerField(min_value=2000, ...)
MinYear == 2000

\* The calendar year in which the form classes are loaded.
FirstYear == MinYear

Uids == 1..MaxUid
ValidYears == {MinYear}
YearInputs == (MinYear - 1)..(FirstYear + MaxTicks)

None == "none"
OK == "ok"

(* ------------------------------- store --------------------------------- *)

\* models.User: the values a new row has before a form sets anything.
UserDefaults(id, email, password) ==
    [id |-> id, email |-> email, password |-> password,
     is_student |-> FALSE, is_teacher |-> FALSE, is_deptadmin |-> FALSE,
     is_staff |-> FALSE, is_accepted |-> FALSE, is_active |-> TRUE]

\* A User model whose email is not declared unique.
UniqueEmail_Undeclared(users) == TRUE

\* User.email is unique in the store.
UniqueEmail(users) ==
    \A u, v \in users : u.email = v.email => u = v

\* Student.registry_id is unique in the store.
UniqueRegistryId(students) ==
    \A s, t \in students : s.registry_id = t.registry_id => s = t

Res(d, exc) == [db |-> d, exc |-> exc]

UsersById(d, id) == {u \in d.users : u.id = id}
UsersByEmail(d, email) == {u \in d.users : u.email = email}
StudentsByUser(d, id) == {s \in d.students : s.user = id}
StudentsByRegistryId(d, reg) == {s \in d.students : s.registry_id = reg}
TeachersByUser(d, id) == {t \in d.teachers : t.user = id}
DeptadminsByUser(d, id) == {a \in d.deptadmins : a.user = id}

\* The rows of a membership table that belong to one user, as a bag.
RowsOfUser(table, id) ==
    [r \in {x \in BagToSet(table) : x.user_id = id} |-> table[r]]

RowsNotOfUser(table, id) ==
    [r \in {x \in BagToSet(table) : x.user_id # id} |-> table[r]]

\* queryset[0]
First(rows) == CHOOSE r \in rows : \A q \in rows : r.id <= q.id

\* queryset[0] of Student rows, and the row objects.get() returns.
FirstStudent(rows) == CHOOSE r \in rows : \A q \in rows : r.user <= q.user
TheRow(rows) == CHOOSE r \in rows : TRUE

\* user.save() of a row that is new.
UserInsert(d, user) ==
    LET users == d.users \cup {user}
    IN  IF UniqueEmail(users)
        THEN Res([d EXCEPT !.users = users, !.nextId = @ + 1], OK)
        ELSE Res(d, "IntegrityError")

\* user.save() of a row that exists.
UserUpdate(d, old, new) ==
    LET users == (d.users \ {old}) \cup {new}
    IN  IF UniqueEmail(users)
        THEN Res([d EXCEPT !.users = users], OK)
        ELSE Res(d, "IntegrityError")

\* Student.objects.create(user=user): the row with its fields unset.
StudentCreate(d, uid) ==
    LET row == [user |-> uid, registry_id |-> None, first_name |-> None,
                last_name |-> None, admission_year |-> 0]
        students == d.students \cup {row}
    IN  IF UniqueRegistryId(students)
        THEN Res([d EXCEPT !.students = students], OK)
        ELSE Res(d, "IntegrityError")

\* student.save() after the form has assigned the profile fields.
StudentSaveRow(d, old, in) ==
    LET row == [user |-> old.user, registry_id |-> in.registry_id,
                first_name |-> in.first_name, last_name |-> in.last_name,
                admission_year |-> in.admission_year]
        students == (d.students \ {old}) \cup {row}
    IN  IF UniqueRegistryId(students)
        THEN Res([d EXCEPT !.students = students], OK)
        ELSE Res(d, "IntegrityError")

\* DepartmentStudents.objects.create(dept_id=..., user_id=user)
DeptStudentsCreate(d, dept, uid) ==
    Res([d EXCEPT !.deptStudents =
            @ (+) SetToBag({[dept_id |-> dept, user_id |-> uid]})], OK)

\* Teacher.objects.create(user=user): the row with its fields unset.
TeacherCreate(d, uid) ==
    Res([d EXCEPT !.teachers =
            @ \cup {[user |-> uid, first_name |-> None, last_name |-> None,
                     rank |-> None]}], OK)

\* teacher.save() after the form has assigned the profile fields.
TeacherSaveRow(d, old, in) ==
    Res([d EXCEPT !.teachers =
            (@ \ {old}) \cup {[user |-> old.user, first_name |-> in.first_name,
                               last_name |-> in.last_name, rank |-> in.rank]}], OK)

\* DepartmentTeachers.objects.create(dept_id=..., user_id=user)
DeptTeachersCreate(d, dept, uid) ==
    Res([d EXCEPT !.deptTeachers =
            @ (+) SetToBag({[dept_id |-> dept, user_id |-> uid]})], OK)

\* An update that creates the membership row instead of changing it.
MembershipUpdate_Insert(d, table, dept, uid) ==
    Res([d EXCEPT ![table] =
            @ (+) SetToBag({[dept_id |-> dept, user_id |-> uid]})], OK)

\* dept = <table>.objects.get(user_id=user); dept.dept_id = ...; dept.save()
\* get() raises unless exactly one row matches.
MembershipUpdate(d, table, dept, uid) ==
    LET mine == RowsOfUser(d[table], uid)
        n == BagCardinality(mine)
        old == TheRow(BagToSet(mine))
    IN  IF n = 0 THEN Res(d, "DoesNotExist")
        ELSE IF n > 1 THEN Res(d, "MultipleObjectsReturned")
        ELSE Res([d EXCEPT ![table] =
                    RowsNotOfUser(@, uid)
                    (+) SetToBag({[old EXCEPT !.dept_id = dept]})], OK)

\* A body without @transaction.atomic: every write made before the
\* exception stays.
Atomic_Missing(d, r) == r.db

\* @transaction.atomic: what is committed is the result of the body when it
\* returns, and the store as it was when it raises.
Atomic(d, r) == IF r.exc = OK THEN r.db ELSE d


(* ------------------------- field validation ---------------------------- *)

\* forms.IntegerField(min_value=2000, max_value=datetime.datetime.now().year):
\* the class body runs once, when the module is loaded, so the upper limit
\* is the year of that moment.
AdmissionYearErrors(year, maxValue) ==
    (IF year < MinYear THEN {"min_value"} ELSE {})
    \cup (IF year > maxValue THEN {"max_value"} ELSE {})

\* ModelForm validation of the fields of Meta.model (User): a unique field
\* must not equal the field of a stored row.
ModelUniqueErrors(d, in) ==
    IF UniqueEmail(d.users \cup {UserDefaults(0, in.email, in.password)})
    THEN {} ELSE {"unique"}

(* ------------------------------ signin --------------------------------- *)

\* django.contrib.auth.authenticate with the default ModelBackend: the user
\* with this email whose password matches and who is active, else nobody.
authenticate(d, email, password) ==
    {u \in UsersByEmail(d, email) : u.password = password /\ u.is_active}

\* confirm_login_allowed that lets every authenticated user in.
confirm_login_allowed_Open(user) == {}

confirm_login_allowed(user) ==
    IF ~user.is_accepted THEN {"disabled"} ELSE {}

SigninClean(d, in) ==
    IF in.email # None /\ in.password # None
    THEN LET user_cache == authenticate(d, in.email, in.password)
         IN  IF user_cache = {}
             THEN {"invalid_login"}
             ELSE confirm_login_allowed(First(user_cache))
    ELSE {"required"}

(* --------------------------- account actions --------------------------- *)

\* User.objects.get(id=user_id), then one flag set, then user.save()
SetFlag(d, user_id, flag, value) ==
    LET found == UsersById(d, user_id)
    IN  IF found = {}
        THEN Res(d, "DoesNotExist")
        ELSE UserUpdate(d, First(found), [First(found) EXCEPT ![flag] = value])

\* accept() written like delete(): filter(id=user_id).update(is_accepted=True)
accept_Filter(d, user_id) ==
    Res([d EXCEPT !.users =
            {IF u.id = user_id THEN [u EXCEPT !.is_accepted = TRUE] ELSE u :
                u \in @}], OK)

accept(d, user_id) ==
    SetFlag(d, user_id, "is_accepted", TRUE)

activate(d, user_id) ==
    SetFlag(d, user_id, "is_active", TRUE)

deactivate(d, user_id) ==
    SetFlag(d, user_id, "is_active", FALSE)

\* Deleting User rows deletes the rows that reference them: the role
\* profiles and the membership rows.
CascadeDelete(d, ids) ==
    [d EXCEPT
        !.users = {u \in @ : u.id \notin ids},
        !.students = {s \in @ : s.user \notin ids},
        !.teachers = {t \in @ : t.user \notin ids},
        !.deptadmins = {a \in @ : a.user \notin ids},
        !.deptStudents = [r \in {x \in BagToSet(@) : x.user_id \notin ids} |-> @[r]],
        !.deptTeachers = [r \in {x \in BagToSet(@) : x.user_id \notin ids} |-> @[r]]]

\* User.objects.filter(id=user_id).delete()
delete(d, user_id) ==
    Res(CascadeDelete(d, {u.id : u \in UsersById(d, user_id)}), OK)

(* ------------------------------ student -------------------------------- *)

\* clean() without the registry_id lookup.
StudentSignupClean_NoLookup(d, in, maxValue) ==
    AdmissionYearErrors(in.admission_year, maxValue)
    \cup ModelUniqueErrors(d, in)

StudentSignupClean(d, in, maxValue) ==
    AdmissionYearErrors(in.admission_year, maxValue)
    \cup (IF StudentsByRegistryId(d, in.registry_id) # {}
          THEN {"registry_id_exists"} ELSE {})
    \cup ModelUniqueErrors(d, in)

\* save() without the DepartmentStudents row.
StudentSignupSave_NoMembership(d, in) ==
    LET uid == d.nextId
        user == [UserDefaults(uid, in.email, in.password)
                    EXCEPT !.is_student = TRUE]
        r1 == UserInsert(d, user)
        r2 == IF r1.exc # OK THEN r1 ELSE StudentCreate(r1.db, uid)
    IN  IF r2.exc # OK THEN r2
        ELSE StudentSaveRow(r2.db, TheRow(StudentsByUser(r2.db, uid)), in)

StudentSignupSave(d, in) ==
    LET uid == d.nextId
        user == [UserDefaults(uid, in.email, in.password)
                    EXCEPT !.is_student = TRUE]
        r1 == UserInsert(d, user)
        r2 == IF r1.exc # OK THEN r1 ELSE StudentCreate(r1.db, uid)
        r3 == IF r2.exc # OK THEN r2
              ELSE StudentSaveRow(r2.db, TheRow(StudentsByUser(r2.db, uid)), in)
    IN  IF r3.exc # OK THEN r3
        ELSE DeptStudentsCreate(r3.db, in.department, uid)

\* clean() that does not except the user being updated.
StudentUpdateClean_NoSelfExclusion(d, in, maxValue) ==
    AdmissionYearErrors(in.admission_year, maxValue)
    \cup (IF UsersByEmail(d, in.email) # {}
          THEN {"email_exists"}
          ELSE IF StudentsByRegistryId(d, in.registry_id) # {}
               THEN {"registry_id_exists"} ELSE {})

StudentUpdateClean(d, in, maxValue) ==
    LET byEmail == UsersByEmail(d, in.email)
        byReg == StudentsByRegistryId(d, in.registry_id)
    IN  AdmissionYearErrors(in.admission_year, maxValue)
        \cup (IF byEmail # {} /\ ~(First(byEmail).id = in.user_id)
              THEN {"email_exists"}
              ELSE IF byReg # {} /\ ~(FirstStudent(byReg).user = in.user_id)
                   THEN {"registry_id_exists"} ELSE {})

StudentUpdateSave(d, in) ==
    LET found == UsersById(d, in.user_id)
        user == First(found)
        r1 == IF found = {} THEN Res(d, "DoesNotExist")
              ELSE UserUpdate(d, user, [user EXCEPT !.email = in.email])
        r2 == IF r1.exc # OK THEN r1
              ELSE IF StudentsByUser(r1.db, in.user_id) = {}
                 THEN Res(r1.db, "DoesNotExist")
                 ELSE StudentSaveRow(r1.db, TheRow(StudentsByUser(r1.db, in.user_id)), in)
    IN  IF r2.exc # OK THEN r2
        ELSE MembershipUpdate(r2.db, "deptStudents", in.department, in.user_id)

(* ------------------------------ teacher -------------------------------- *)

TeacherSignupClean(d, in) == ModelUniqueErrors(d, in)

TeacherSignupSave(d, in) ==
    LET uid == d.nextId
        user == [UserDefaults(uid, in.email, in.password)
                    EXCEPT !.is_teacher = TRUE]
        r1 == UserInsert(d, user)
        r2 == IF r1.exc # OK THEN r1 ELSE TeacherCreate(r1.db, uid)
        r3 == IF r2.exc # OK THEN r2
              ELSE TeacherSaveRow(r2.db, TheRow(TeachersByUser(r2.db, uid)), in)
    IN  IF r3.exc # OK THEN r3
        ELSE DeptTeachersCreate(r3.db, in.department, uid)

TeacherUpdateClean(d, in) ==
    LET byEmail == UsersByEmail(d, in.email)
    IN  IF byEmail # {} /\ ~(First(byEmail).id = in.user_id)
        THEN {"email_exists"} ELSE {}

TeacherUpdateSave(d, in) ==
    LET found == UsersById(d, in.user_id)
        user == First(found)
        r1 == IF found = {} THEN Res(d, "DoesNotExist")
              ELSE UserUpdate(d, user, [user EXCEPT !.email = in.email])
        r2 == IF r1.exc # OK THEN r1
              ELSE IF TeachersByUser(r1.db, in.user_id) = {}
                 THEN Res(r1.db, "DoesNotExist")
                 ELSE TeacherSaveRow(r1.db, TheRow(TeachersByUser(r1.db, in.user_id)), in)
    IN  IF r2.exc # OK THEN r2
        ELSE MembershipUpdate(r2.db, "deptTeachers", in.department, in.user_id)

(* ----------------------------- deptadmin ------------------------------- *)

DeptadminSignupClean(d, in) == ModelUniqueErrors(d, in)

DeptadminSignupSave(d, in) ==
    LET uid == d.nextId
        user == [UserDefaults(uid, in.email, in.password)
                    EXCEPT !.is_deptadmin = TRUE, !.is_staff = TRUE]
        r1 == UserInsert(d, user)
    IN  IF r1.exc # OK THEN r1 ELSE Res([r1.db EXCEPT !.deptadmins =
                    @ \cup {[user |-> uid, department |-> in.department]}], OK)

DeptadminUpdateClean(d, in) ==
    LET byEmail == UsersByEmail(d, in.email)
    IN  IF byEmail # {} /\ ~(First(byEmail).id = in.user_id)
        THEN {"email_exists"} ELSE {}

DeptadminUpdateSave(d, in) ==
    LET found == UsersById(d, in.user_id)
        user == First(found)
        r1 == IF found = {} THEN Res(d, "DoesNotExist")
              ELSE UserUpdate(d, user, [user EXCEPT !.email = in.email])
    IN  IF r1.exc # OK THEN r1
        ELSE IF DeptadminsByUser(r1.db, in.user_id) = {}
            THEN Res(r1.db, "DoesNotExist")
            ELSE Res([r1.db EXCEPT !.deptadmins =
                        (@ \ DeptadminsByUser(r1.db, in.user_id))
                        \cup {[user |-> in.user_id,
                               department |-> in.department]}], OK)


(* ------------------------------ requests ------------------------------- *)

NoInput ==
    [user_id |-> 0, email |-> None, password |-> None, department |-> None,
     first_name |-> None, last_name |-> None, registry_id |-> None,
     admission_year |-> 0, rank |-> None]

NoRequest == [op |-> None, in |-> NoInput, errors |-> {}, exc |-> None]

Credentials ==
    {[NoInput EXCEPT !.email = e, !.password = p] :
        e \in Emails, p \in Passwords \cup {"wrong", None}}

UserIds == {[NoInput EXCEPT !.user_id = i] : i \in Uids}

AccountFields ==
    {[NoInput EXCEPT !.email = e, !.password = p, !.department = dp] :
        e \in Emails, p \in Passwords, dp \in Depts}

UpdateFields ==
    {[NoInput EXCEPT !.user_id = i, !.email = e, !.department = dp] :
        i \in Uids, e \in Emails, dp \in Depts}

StudentFields(base, years) ==
    {[b EXCEPT !.first_name = n, !.last_name = m, !.registry_id = g,
               !.admission_year = y] :
        b \in base, n \in Names, m \in Surnames, g \in RegIds, y \in years}

TeacherFields(base) ==
    {[b EXCEPT !.first_name = n, !.last_name = m, !.rank = k] :
        b \in base, n \in Names, m \in Surnames, k \in Ranks}

\* One request served from validation to response: the store that results
\* and what the caller is told.
Respond(op, in, errors, exc, committed) ==
    /\ db' = committed
    /\ last' = IF recording
               THEN [op |-> op, in |-> in, errors |-> errors, exc |-> exc]
               ELSE last
    /\ UNCHANGED <<now, loadYear, reqs, recording>>

\* form.is_valid() and, when it is, form.save()
Submit(op, in, errors, r) ==
    IF errors # {}
    THEN Respond(op, in, errors, None, db)
    ELSE Respond(op, in, {}, r.exc, Atomic(db, r))

Signin ==
    \E in \in Credentials :
        Respond("signin", in, SigninClean(db, in), None, db)

Accept ==
    \E in \in UserIds :
        LET r == accept(db, in.user_id) IN Respond("accept", in, {}, r.exc, r.db)

Delete ==
    \E in \in UserIds :
        LET r == delete(db, in.user_id) IN Respond("delete", in, {}, r.exc, r.db)

Activate ==
    \E in \in UserIds :
        LET r == activate(db, in.user_id) IN Respond("activate", in, {}, r.exc, r.db)

Deactivate ==
    \E in \in UserIds :
        LET r == deactivate(db, in.user_id)
        IN  Respond("deactivate", in, {}, r.exc, r.db)

StudentSignup(years) ==
    /\ db.nextId <= MaxUid
    /\ \E in \in StudentFields(AccountFields, years) :
          Submit("student_signup", in, StudentSignupClean(db, in, loadYear),
                 StudentSignupSave(db, in))

StudentUpdate(years) ==
    \E in \in StudentFields(UpdateFields, years) :
        Submit("student_update", in, StudentUpdateClean(db, in, loadYear),
               StudentUpdateSave(db, in))

TeacherSignup ==
    /\ db.nextId <= MaxUid
    /\ \E in \in TeacherFields(AccountFields) :
          Submit("teacher_signup", in, TeacherSignupClean(db, in),
                 TeacherSignupSave(db, in))

TeacherUpdate ==
    \E in \in TeacherFields(UpdateFields) :
        Submit("teacher_update", in, TeacherUpdateClean(db, in),
               TeacherUpdateSave(db, in))

DeptadminSignup ==
    /\ db.nextId <= MaxUid
    /\ \E in \in AccountFields :
          Submit("deptadmin_signup", in, DeptadminSignupClean(db, in),
                 DeptadminSignupSave(db, in))

DeptadminUpdate ==
    \E in \in UpdateFields :
        Submit("deptadmin_update", in, DeptadminUpdateClean(db, in),
               DeptadminUpdateSave(db, in))

\* The calendar year advances; the loaded form classes stay as they are.
NewYear ==
    /\ now < FirstYear + MaxTicks
    /\ now' = now + 1
    /\ last' = NoRequest
    /\ UNCHANGED <<db, loadYear, reqs, recording>>

EmptyStore ==
    [users |-> {}, students |-> {}, teachers |-> {}, deptadmins |-> {},
     deptStudents |-> EmptyBag, deptTeachers |-> EmptyBag, nextId |-> 1]

Idle == [pc |-> "idle", op |-> None, in |-> NoInput, errors |-> {}, exc |-> None]

\* The store as the migrations leave it, the forms just loaded.
Start(rec) ==
    /\ db = EmptyStore
    /\ now = FirstYear
    /\ loadYear = now
    /\ reqs = [s \in Slots |-> Idle]
    /\ last = NoRequest
    /\ recording = rec

Init == Start(TRUE)

\* Signups, updates and deletion, one request at a time.
Next ==
    \/ Delete
    \/ StudentSignup(ValidYears)
    \/ StudentUpdate(ValidYears)
    \/ TeacherSignup
    \/ TeacherUpdate
    \/ DeptadminSignup
    \/ DeptadminUpdate

Spec == Init /\ [][Next]_vars

\* Signin against the accounts that signups and account actions leave.
NextSignin ==
    \/ Signin
    \/ Accept
    \/ Delete
    \/ Activate
    \/ Deactivate
    \/ StudentSignup(ValidYears)

SpecSignin == Init /\ [][NextSignin]_vars

\* Student forms over the years, while the calendar advances.
NextClock ==
    \/ StudentSignup(YearInputs)
    \/ StudentUpdate(YearInputs)
    \/ NewYear

SpecClock == Init /\ [][NextClock]_vars

\* Every operation, one request at a time, responses not recorded.
NextAll ==
    \/ Signin
    \/ Accept
    \/ Delete
    \/ Activate
    \/ Deactivate
    \/ StudentSignup(YearInputs)
    \/ StudentUpdate(YearInputs)
    \/ TeacherSignup
    \/ TeacherUpdate
    \/ DeptadminSignup
    \/ DeptadminUpdate
    \/ NewYear

SpecAll == Start(FALSE) /\ [][NextAll]_vars


(* ------------------------- overlapping requests ------------------------ *)

\* Signups that have passed validation and will ask the store for an id.
PendingSignups ==
    {s \in Slots : reqs[s].pc = "cleaned" /\ reqs[s].op = "student_signup"}

\* form.is_valid() of a request, against the store as it is now.
Validate(s, op, in, errors) ==
    /\ reqs[s].pc = "idle"
    /\ reqs' = [reqs EXCEPT ![s] =
                  [pc |-> IF errors = {} THEN "cleaned" ELSE "rejected",
                   op |-> op, in |-> in, errors |-> errors, exc |-> None]]
    /\ UNCHANGED <<db, now, loadYear, last, recording>>

ValidateStudentSignup(s) ==
    /\ db.nextId + Cardinality(PendingSignups) <= MaxUid
    /\ \E in \in StudentFields(AccountFields, ValidYears) :
          Validate(s, "student_signup", in, StudentSignupClean(db, in, loadYear))

ValidateStudentUpdate(s) ==
    \E in \in StudentFields(UpdateFields, ValidYears) :
        Validate(s, "student_update", in, StudentUpdateClean(db, in, loadYear))

\* form.save() of a validated request, against the store as it is by then.
Save(s) ==
    /\ reqs[s].pc = "cleaned"
    /\ LET r == IF reqs[s].op = "student_signup"
                THEN StudentSignupSave(db, reqs[s].in)
                ELSE StudentUpdateSave(db, reqs[s].in)
       IN  /\ db' = Atomic(db, r)
           /\ reqs' = [reqs EXCEPT
                         ![s].pc = IF r.exc = OK THEN "committed" ELSE "failed",
                         ![s].exc = r.exc]
    /\ UNCHANGED <<now, loadYear, last, recording>>

\* The response is sent and the worker takes the next request.
Done(s) ==
    /\ reqs[s].pc \in {"rejected", "committed", "failed"}
    /\ reqs' = [reqs EXCEPT ![s] = Idle]
    /\ UNCHANGED <<db, now, loadYear, last, recording>>

NextRace ==
    \E s \in Slots :
        \/ ValidateStudentSignup(s)
        \/ ValidateStudentUpdate(s)
        \/ Save(s)
        \/ Done(s)

SpecRace == Start(FALSE) /\ [][NextRace]_vars


(* ------------------------------ properties ----------------------------- *)

\* The membership rows of one user in a table.
Memberships(table, id) == BagCardinality(RowsOfUser(table, id))

\* C1: a student signup whose fields pass validation adds exactly one User
\* row, one Student row and one DepartmentStudents row and no other row;
\* the Student has the submitted registry_id, the User the submitted email,
\* is_student = true and is_accepted = false, and the three rows belong to
\* the same new user.
C1_SignupCreatesRows ==
    [][ (last'.op = "student_signup" /\ last'.errors = {}) =>
          LET in == last'.in
              newUsers == db'.users \ db.users
              newStudents == db'.students \ db.students
          IN  /\ last'.exc = OK
              /\ db.users \subseteq db'.users
              /\ db.students \subseteq db'.students
              /\ Cardinality(newUsers) = 1
              /\ Cardinality(newStudents) = 1
              /\ \E u \in newUsers, st \in newStudents :
                    /\ u.email = in.email
                    /\ u.is_student
                    /\ ~u.is_accepted
                    /\ st.user = u.id
                    /\ st.registry_id = in.registry_id
                    /\ UsersById(db, u.id) = {}
                    /\ db'.deptStudents = db.deptStudents (+)
                          SetToBag({[dept_id |-> in.department, user_id |-> u.id]})
                    /\ Memberships(db'.deptStudents, u.id) = 1
              /\ db'.teachers = db.teachers
              /\ db'.deptadmins = db.deptadmins
              /\ db'.deptTeachers = db.deptTeachers
      ]_vars

C1_Witness ==
    /\ last.op = "student_signup"
    /\ last.errors = {}
    /\ last.exc = OK
    /\ \E u \in db.users, st \in db.students :
          /\ u.email = last.in.email
          /\ st.user = u.id
          /\ st.registry_id = last.in.registry_id
          /\ Memberships(db.deptStudents, u.id) = 1

\* C2: a student signup whose registry_id is that of a stored Student fails
\* validation with registry_id_exists, and the store is left as it was.
C2_DuplicateRegistryIdRejected ==
    [][ (/\ last'.op = "student_signup"
         /\ StudentsByRegistryId(db, last'.in.registry_id) # {}) =>
          /\ "registry_id_exists" \in last'.errors
          /\ db' = db
      ]_vars

C2_Witness ==
    /\ last.op = "student_signup"
    /\ last.errors = {"registry_id_exists"}
    /\ StudentsByRegistryId(db, last.in.registry_id) # {}
    /\ UsersByEmail(db, last.in.email) = {}

\* C5: a student update for user U whose email is that of another user
\* fails with email_exists and writes nothing; one whose email is U's own
\* (its registry_id not another student's, U being a student) passes
\* validation and is applied.
C5_UpdateEmailSelfExclusion ==
    [][ (last'.op = "student_update") =>
          LET in == last'.in
              others == {u \in db.users : u.id # in.user_id}
              own == {u \in db.users : u.id = in.user_id /\ u.email = in.email}
          IN  /\ (\E u \in others : u.email = in.email) =>
                    /\ "email_exists" \in last'.errors
                    /\ db' = db
              /\ (/\ own # {}
                  /\ StudentsByUser(db, in.user_id) # {}
                  /\ \A st \in StudentsByRegistryId(db, in.registry_id) :
                        st.user = in.user_id) =>
                    /\ last'.errors = {}
                    /\ last'.exc = OK
                    /\ db'.users = db.users
                    /\ \E st \in StudentsByUser(db', in.user_id) :
                          /\ st.registry_id = in.registry_id
                          /\ st.first_name = in.first_name
                          /\ st.last_name = in.last_name
                          /\ st.admission_year = in.admission_year
                    /\ [dept_id |-> in.department, user_id |-> in.user_id]
                          \in BagToSet(db'.deptStudents)
      ]_vars

\* An update of U with its own email, another user being stored.
C5_Witness ==
    /\ last.op = "student_update"
    /\ last.errors = {}
    /\ last.exc = OK
    /\ \E u \in db.users :
          /\ u.id = last.in.user_id
          /\ u.email = last.in.email
    /\ Cardinality(db.users) = 2
    /\ \E st \in StudentsByUser(db, last.in.user_id) :
          st.registry_id = last.in.registry_id

IsUpdate(op) == op \in {"student_update", "teacher_update", "deptadmin_update"}

\* Whether save() of this update finds every row it looks up.
UpdateTargetsExist(d, op, in) ==
    /\ UsersById(d, in.user_id) # {}
    /\ op = "student_update" =>
          /\ StudentsByUser(d, in.user_id) # {}
          /\ Memberships(d.deptStudents, in.user_id) = 1
    /\ op = "teacher_update" =>
          /\ TeachersByUser(d, in.user_id) # {}
          /\ Memberships(d.deptTeachers, in.user_id) = 1
    /\ op = "deptadmin_update" => DeptadminsByUser(d, in.user_id) # {}

\* C9: a student, teacher or deptadmin update is all or nothing: when save()
\* does not find the User, the profile of the form's role or the membership
\* row, the request fails with DoesNotExist and the store (User.email
\* included) is as it was before the call.
C9_UpdateAllOrNothing ==
    [][ (IsUpdate(last'.op) /\ last'.errors = {}) =>
          IF UpdateTargetsExist(db, last'.op, last'.in)
          THEN last'.exc = OK
          ELSE last'.exc = "DoesNotExist" /\ db' = db
      ]_vars

\* A student update of a user who is no student, with an email that user.save()
\* would have changed.
C9_Witness ==
    /\ last.op = "student_update"
    /\ last.errors = {}
    /\ last.exc = "DoesNotExist"
    /\ \E u \in db.users :
          /\ u.id = last.in.user_id
          /\ u.email # last.in.email
          /\ u.is_teacher


\* C3: no two distinct User rows have the same email, in every state that
\* signups, updates and account actions reach.
C3_EmailUnique ==
    \A u, v \in db.users : u.id # v.id => u.email # v.email

\* Two users of different roles, both after a signup that took the last id.
C3_Witness ==
    /\ db.nextId > MaxUid
    /\ \E u, v \in db.users :
          /\ u.id # v.id
          /\ u.is_student
          /\ v.is_deptadmin

\* C10: each Student row has exactly one DepartmentStudents row for its
\* user and each Teacher row exactly one DepartmentTeachers row.
C10_OneMembershipRow ==
    /\ \A st \in db.students : Memberships(db.deptStudents, st.user) = 1
    /\ \A t \in db.teachers : Memberships(db.deptTeachers, t.user) = 1

\* A student and a teacher, each with the one row, in different departments.
C10_Witness ==
    \E st \in db.students, t \in db.teachers, ds \in Depts, dt \in Depts :
        /\ ds # dt
        /\ db.deptStudents = SetToBag({[dept_id |-> ds, user_id |-> st.user]})
        /\ db.deptTeachers = SetToBag({[dept_id |-> dt, user_id |-> t.user]})

\* The stored users these credentials are the right ones for.
Holders(in) ==
    {u \in db.users : u.email = in.email /\ u.password = in.password}

\* C6 as stated: signin with the right email and password of a user with
\* is_accepted = false fails with disabled, whatever the user's other flags.
C6_DisabledWhateverFlags ==
    (last.op = "signin" /\ \E u \in Holders(last.in) : ~u.is_accepted)
        => last.errors = {"disabled"}

\* C6 amended: signin with the right email and password of a user with
\* is_accepted = false and is_active = true fails with disabled and not
\* with invalid_login; disabled is only ever the answer to the right
\* credentials.
C6_DisabledWhenActive ==
    last.op = "signin" =>
        /\ (\E u \in Holders(last.in) : ~u.is_accepted /\ u.is_active)
              => last.errors = {"disabled"}
        /\ "disabled" \in last.errors
              => \E u \in Holders(last.in) : ~u.is_accepted

C6_Witness ==
    /\ last.op = "signin"
    /\ last.errors = {"disabled"}
    /\ \E u \in Holders(last.in) : ~u.is_accepted /\ u.is_active

\* C7: with a user_id that matches no User, delete raises nothing and
\* accept, activate and deactivate fail with DoesNotExist; the store is
\* unchanged in each case.
C7_MissingUser ==
    [][ (/\ last'.op \in {"delete", "accept", "activate", "deactivate"}
         /\ UsersById(db, last'.in.user_id) = {}) =>
          /\ db' = db
          /\ last'.exc = IF last'.op = "delete" THEN OK ELSE "DoesNotExist"
      ]_vars

\* accept of an id the store has not handed out, other users being stored.
C7_Witness ==
    /\ last.op = "accept"
    /\ last.exc = "DoesNotExist"
    /\ last.in.user_id >= db.nextId
    /\ db.users # {}

\* C8 as stated: student signup and update accept an admission_year exactly
\* when it lies between 2000 and the calendar year of the validation.
C8_YearWindowAtValidation ==
    last.op \in {"student_signup", "student_update"} =>
        ((last.errors \cap {"min_value", "max_value"} = {})
            <=> (MinYear <= last.in.admission_year /\ last.in.admission_year <= now))


\* The Student rows that keep a request from taking its registry_id: those
\* of other users that have it.
RegistryIdTakenFor(req) ==
    {st \in StudentsByRegistryId(db, req.in.registry_id) :
        req.op = "student_signup" \/ st.user # req.in.user_id}

\* C4: when student signups and updates overlap, the store decides: no
\* state has two Student rows with one registry_id; a save() commits only
\* if no other student has its registry_id by then, and a save() that
\* fails persists nothing, its User row included.
C4_RaceLoserRollsBack ==
    /\ [](\A st, tt \in db.students :
            st.registry_id = tt.registry_id => st.user = tt.user)
    /\ [][ \A s \in Slots :
             (reqs[s].pc = "cleaned" /\ reqs'[s].pc # "cleaned") =>
                /\ reqs'[s].pc = "committed" => RegistryIdTakenFor(reqs[s]) = {}
                /\ RegistryIdTakenFor(reqs[s]) # {} => reqs'[s].pc = "failed"
                /\ reqs'[s].pc = "failed" => db' = db
         ]_vars

\* Two signups with one registry_id and different emails that both passed
\* validation: one committed, the other failed at the store.
C4_Witness ==
    \E s, t \in Slots :
        /\ reqs[s].op = "student_signup" /\ reqs[s].pc = "committed"
        /\ reqs[t].op = "student_signup" /\ reqs[t].pc = "failed"
        /\ reqs[t].exc = "IntegrityError"
        /\ reqs[s].in.registry_id = reqs[t].in.registry_id
        /\ reqs[s].in.email # reqs[t].in.email
        /\ Cardinality(db.users) = 1

====
